---- MODULE Spec2Model ----
(***************************************************************************)
(* A model of the MedEx scraper.                                           *)
(*                                                                         *)
(*   src/langchain_medical_scraper.py  fetch_webpage and the BrowserManager*)
(*       behind it: the LIGHT requests.get attempt, the escalation to the  *)
(*       Selenium browser, challenge detection and solving, and the record *)
(*       {"url", "content"} that comes back             (SpecFetch)        *)
(*   src/scraper.py  scrape_medex_brands_full: the page loop, the item     *)
(*       loop, and the whole-document rewrite of medex_brands_data.json    *)
(*       after every item, with process crashes and re-runs (SpecBatch)    *)
(*                                                                         *)
(*   BrowserManager._detect_captcha_type called on its own, several times  *)
(*       on one rendered page                                (SpecDetect)  *)
(*   BrowserManager.fetch_page_with_browser entered by several threads on  *)
(*       the one module-level browser_manager                  (SpecConc)  *)
(*   src/scraper.py  extract_links_from_page on one listing page           *)
(*                                                            (SpecLinks)  *)
(*                                                                         *)
(* Each specification leaves the variables of the other parts untouched.   *)
(***************************************************************************)
EXTENDS Integers, Sequences, FiniteSets, TLC

(***************************************************************************)
(* Bounds of the model.                                                    *)
(***************************************************************************)
\* calls of fetch_webpage in one behaviour
MaxCalls == 2
\* notable words in one response body
MaxWords == 1
\* runs of scrape_medex_brands_full in one behaviour (a crash ends a run)
MaxRuns == 2
\* listing pages of the site, which is what get_total_pages returns
MaxPages == 2
\* links on one listing page
MaxLinks == 2
\* calls of _detect_captcha_type on one rendered page
MaxClassifications == 2
\* threads that call fetch_webpage at the same time
MaxWorkers == 2
\* <a> tags on one listing page
MaxAnchors == 2
\* matches of the fallback regular expression in the text of one listing page
MaxMatches == 1

(***************************************************************************)
(* Strings.  A Python string is modelled by the notable words in it (in    *)
(* order), the number of its other characters (pad), and, for markup, the  *)
(* DOM markers a browser would find in it.  Nothing in the value says      *)
(* where the string came from: a page body and an error message are both   *)
(* just strings.                                                           *)
(***************************************************************************)
Words ==
    {"captcha", "CAPTCHA", "reCaptcha", "Security Check", "bot detection",
     "Challenge", "aspirin"}

LowerWordIdentity(w) == w

\* str.lower() on one word
LowerWord(w) ==
    CASE w = "CAPTCHA" -> "captcha"
      [] w = "reCaptcha" -> "recaptcha"
      [] w = "Security Check" -> "security check"
      [] w = "Challenge" -> "challenge"
      [] OTHER -> w

\* len() of one word
WordLen(w) ==
    CASE w \in {"captcha", "CAPTCHA", "aspirin"} -> 7
      [] w \in {"reCaptcha", "Challenge"} -> 9
      [] w = "Security Check" -> 14
      [] w = "bot detection" -> 13
      [] OTHER -> 0

\* Python's `ind in word` (substring test) on the words of the model
SubstringOf(ind, w) ==
    \/ ind = w
    \/ ind = "captcha" /\ w \in {"recaptcha", "reCaptcha"}

RECURSIVE SumLen(_)
SumLen(ws) == IF ws = <<>> THEN 0 ELSE WordLen(Head(ws)) + SumLen(Tail(ws))

\* len(text)
Len_(text) == text.pad + SumLen(text.words)

\* text.lower()
Lower(text) ==
    [text EXCEPT !.words = [i \in DOMAIN text.words |-> LowerWord(text.words[i])]]

\* `ind in text`
Contains(text, ind) == \E i \in DOMAIN text.words : SubstringOf(ind, text.words[i])

\* what the selectors of _detect_captcha_type look for: .g-recaptcha,
\* .h-captcha, an img with captcha in its id or src, an input with captcha in
\* its id, and any of the four security-check indicators
Markers == {"g-recaptcha", "h-captcha", "img-captcha", "input-captcha", "security"}

\* body sizes around the 500-character test, and a long body
Pads == {0, 493, 494, 500, 501, 5000}

WordSeqs == UNION {[1..n -> Words] : n \in 0..MaxWords}

\* the bodies requests.get may bring back
Bodies == [pad : Pads, words : WordSeqs, markers : {{}}]

StatusCodes == {200, 403, 503}

Responses == [status_code : StatusCodes, text : Bodies]

NoResponse == [status_code |-> 0, text |-> [pad |-> 0, words |-> <<>>, markers |-> {}]]

\* the pages the browser may show after a navigation or a form submission;
\* the code never looks at the size of a rendered page
Pages == [markers : SUBSET Markers, pad : {5000}]

NoPage == [markers |-> {}, pad |-> 0]

\* driver.page_source
page_source(p) == [pad |-> p.pad, words |-> <<>>, markers |-> p.markers]

\* a failure message, as the string the code builds
Message(m) == [pad |-> 0, words |-> <<m>>, markers |-> {}]

URLS == {"u1", "u2"}

NoResult == [url |-> "none"]


(***************************************************************************)
(* Exceptions.  Python picks the first except clause whose class the       *)
(* raised exception is an instance of; an exception raised inside an       *)
(* except handler is not offered to the sibling clauses of the same try.   *)
(***************************************************************************)
Super(e) ==
    CASE e \in {"Timeout", "ConnectionError"} -> "RequestException"
      [] e = "TimeoutException" -> "WebDriverException"
      [] OTHER -> "Exception"

RECURSIVE IsInstance(_, _)
IsInstance(e, c) == e = c \/ (e # "Exception" /\ IsInstance(Super(e), c))

\* index of the first clause that catches e, 0 when none does
Match(clauses, e) ==
    LET hits == {i \in DOMAIN clauses : IsInstance(e, clauses[i])}
    IN  IF hits = {} THEN 0 ELSE CHOOSE i \in hits : \A j \in hits : i <= j

\* what requests.get may raise
LightRaises == {"Timeout", "ConnectionError", "OtherError"}
\* what a call on the live driver may raise
DriverRaises == {"TimeoutException", "WebDriverException", "OtherError"}
\* what a call on a driver that has been quit raises
QuitDriverRaises == {"WebDriverException", "OtherError"}

(***************************************************************************)
(* State.                                                                  *)
(***************************************************************************)
VARIABLES
    pc,            \* where the current fetch_webpage call stands
    url,           \* its argument
    via,           \* which call site entered fetch_page_with_browser
    response,      \* what requests.get returned (a local, dead once the browser is entered)
    driver,        \* browser_manager.driver: "None", "live" or "quit"
    page,          \* the page the browser shows
    captcha_type,  \* what _detect_captcha_type returned
    solve,         \* what the _solve_* call did
    result,        \* the record fetch_webpage returned
    api_key,       \* whether TWOCAPTCHA_API_KEY is set
    calls,         \* fetch_webpage calls made so far
    obs,           \* what this call has done so far (observation only)
    bpc,           \* where the current run of scrape_medex_brands_full stands
    args,          \* its arguments max_pages and start_page
    total_pages,   \* what get_total_pages returned
    page_num,      \* the page loop's variable
    links,         \* the links of the current page
    item_i,        \* the item loop's index i into links, counted from 1
    all_data,      \* the run's dict, in insertion order
    file,          \* medex_brands_data.json on disk
    runs,          \* runs started so far
    bobs,          \* what this run has done so far (observation only)
    wpc,           \* per thread: where its fetch_page_with_browser call stands
    wurl,          \* per thread: the url argument
    wresult,       \* per thread: what it looked at and what it returned
    mdriver,       \* browser_manager.driver seen by all threads: 0 for None, or a session
    shown,         \* per Chrome session created, in order: the URL whose page it shows
    doc,           \* the listing page handed to extract_links_from_page
    extracted      \* what extract_links_from_page returned for it

fetchVars ==
    <<pc, url, via, response, driver, page, captcha_type, solve, result,
      api_key, calls, obs>>

batchVars ==
    <<bpc, args, total_pages, page_num, links, item_i, all_data, file, runs, bobs>>

concVars == <<wpc, wurl, wresult, mdriver, shown>>

linkVars == <<doc, extracted>>

vars == <<fetchVars, batchVars, concVars, linkVars>>

NoSolve ==
    [attempted |-> FALSE, provider_called |-> FALSE, provider |-> "none",
     token |-> FALSE, solver_raised |-> FALSE, returned |-> FALSE]

NoObs ==
    [light |-> 0, init |-> 0, nav |-> 0, detect |-> 0, solve |-> 0,
     light_outcome |-> "none", strategy |-> "none", nav_url |-> "none",
     detect_fault |-> FALSE, kinds |-> <<>>, saved |-> "none"]

\* browser_manager = BrowserManager(captcha_solver=captcha_solver): the
\* manager always holds a CaptchaSolver object, with or without an API key
captcha_solver == TRUE

InitFetch ==
    /\ pc = "idle"
    /\ url = "none"
    /\ via = "none"
    /\ response = NoResponse
    /\ driver = "None"
    /\ page = NoPage
    /\ captcha_type = "None"
    /\ solve = NoSolve
    /\ result = NoResult
    /\ api_key \in BOOLEAN
    /\ calls = 0
    /\ obs = NoObs

(***************************************************************************)
(* fetch_webpage: the LIGHT attempt.                                       *)
(***************************************************************************)
indicators == <<"captcha", "security check", "bot detection", "challenge">>

\* any(ind in response.text.lower() for ind in indicators)
AnyIndicator(text) ==
    \E k \in DOMAIN indicators : Contains(Lower(text), indicators[k])

LightAcceptsShortOnly(r) ==
    /\ r.status_code = 200
    /\ Len_(r.text) < 500
    /\ ~AnyIndicator(r.text)

\* the test that lets fetch_webpage return the requests response as it is
LightAccepts(r) ==
    /\ r.status_code = 200
    /\ Len_(r.text) > 500
    /\ ~AnyIndicator(r.text)

FetchExceptsNoRequestClause == <<"Exception">>

\* the except clauses of fetch_webpage, in order
FetchExcepts == <<"RequestException", "Exception">>

BrowserExceptsNoCatchAll == <<"TimeoutException", "WebDriverException">>

\* the except clauses of fetch_page_with_browser, in order
BrowserExcepts == <<"TimeoutException", "WebDriverException", "Exception">>

\* the message each except clause of fetch_page_with_browser puts in "content"
BrowserMessage(clause) ==
    CASE clause = "TimeoutException" -> "Timeout waiting for page to load"
      [] clause = "WebDriverException" -> "Browser error"
      [] OTHER -> "Error fetching"

\* a call of fetch_webpage(u) starts
Call(u) ==
    /\ pc \in {"idle", "done"}
    /\ calls < MaxCalls
    /\ pc' = "light"
    /\ url' = u
    /\ calls' = calls + 1
    /\ via' = "none"
    /\ response' = NoResponse
    /\ captcha_type' = "None"
    /\ solve' = NoSolve
    /\ result' = NoResult
    /\ obs' = NoObs
    /\ UNCHANGED <<driver, page, api_key>>
    /\ UNCHANGED <<batchVars, concVars, linkVars>>

\* control after an exception e raised in the try body of fetch_webpage:
\* the RequestException clause goes to the browser, the Exception clause
\* builds an error record, and an exception no clause catches escapes
AfterLightRaise(e) ==
    LET j == Match(FetchExcepts, e)
    IN  CASE j > 0 /\ FetchExcepts[j] = "RequestException" ->
                 [pc |-> "ensure_browser", via |-> "handler", result |-> NoResult,
                  strategy |-> "none"]
          [] j > 0 /\ FetchExcepts[j] # "RequestException" ->
                 [pc |-> "done", via |-> "none", strategy |-> "none",
                  result |-> [url |-> url, content |-> Message("Error fetching")]]
          [] OTHER ->
                 [pc |-> "raised", via |-> "none", result |-> NoResult,
                  strategy |-> "none"]

\* requests.get returns r: the response is returned as it is, or the browser is used
LightReturns(r) ==
    /\ pc = "light"
    /\ response' = r
    /\ IF LightAccepts(r)
       THEN /\ pc' = "done"
            /\ result' = [url |-> url, content |-> r.text]
            /\ via' = via
            /\ obs' = [obs EXCEPT !.light = @ + 1, !.light_outcome = "accepted",
                                  !.strategy = "LIGHT"]
       ELSE /\ pc' = "ensure_browser"
            /\ via' = "try"
            /\ result' = result
            /\ obs' = [obs EXCEPT !.light = @ + 1, !.light_outcome = "blocked"]
    /\ UNCHANGED <<url, driver, page, captcha_type, solve, api_key, calls>>
    /\ UNCHANGED <<batchVars, concVars, linkVars>>

\* requests.get raises e
LightRaisesExc(e) ==
    /\ pc = "light"
    /\ LET n == AfterLightRaise(e)
       IN  /\ pc' = n.pc
           /\ via' = n.via
           /\ result' = n.result
    /\ obs' = [obs EXCEPT !.light = @ + 1, !.light_outcome = e]
    /\ UNCHANGED <<url, response, driver, page, captcha_type, solve, api_key, calls>>
    /\ UNCHANGED <<batchVars, concVars, linkVars>>


(***************************************************************************)
(* BrowserManager: the RENDER attempt.                                     *)
(***************************************************************************)
InitOutcomes == {"ok", "raises_before_driver", "raises_after_driver"}

\* initialize_browser: every exception is caught and reported as False; one
\* raised after webdriver.Chrome() returned leaves self.driver assigned
initialize_browser(outcome) ==
    CASE outcome = "ok" -> [driver |-> "live", success |-> TRUE]
      [] outcome = "raises_after_driver" -> [driver |-> "live", success |-> FALSE]
      [] OTHER -> [driver |-> "None", success |-> FALSE]

\* control after an exception e raised in the try body of fetch_page_with_browser
AfterBrowserRaise(e) ==
    LET i == Match(BrowserExcepts, e)
    IN  IF i > 0
        THEN [pc |-> "done", via |-> via, strategy |-> "RENDER",
              result |-> [url |-> url, content |-> Message(BrowserMessage(BrowserExcepts[i]))]]
        ELSE IF via = "try"
             THEN AfterLightRaise(e)
             ELSE [pc |-> "raised", via |-> via, strategy |-> "none",
                   result |-> NoResult]

\* `if not self.driver:` holds: the browser is initialised
InitializeBrowser(outcome) ==
    /\ pc = "ensure_browser"
    /\ driver = "None"
    /\ LET r == initialize_browser(outcome)
       IN  /\ driver' = r.driver
           /\ IF r.success
              THEN /\ pc' = "navigate"
                   /\ result' = result
                   /\ obs' = [obs EXCEPT !.init = @ + 1]
              ELSE /\ pc' = "done"
                   /\ result' = [url |-> url,
                                 content |-> Message("Failed to initialize browser")]
                   /\ obs' = [obs EXCEPT !.init = @ + 1, !.strategy = "RENDER"]
    /\ response' = NoResponse
    /\ UNCHANGED <<url, via, page, captcha_type, solve, api_key, calls>>
    /\ UNCHANGED <<batchVars, concVars, linkVars>>

\* self.driver is set (live, or quit by close_browser): no initialisation
ReuseBrowser ==
    /\ pc = "ensure_browser"
    /\ driver # "None"
    /\ pc' = "navigate"
    /\ response' = NoResponse
    /\ UNCHANGED <<url, via, driver, page, captcha_type, solve, result,
                   api_key, calls, obs>>
    /\ UNCHANGED <<batchVars, concVars, linkVars>>

\* an exception e leaves the try body of fetch_page_with_browser
BrowserRaise(e) ==
    LET n == AfterBrowserRaise(e)
    IN  /\ pc' = n.pc
        /\ via' = n.via
        /\ result' = n.result
        /\ obs' = [obs EXCEPT !.strategy = n.strategy,
                              !.nav = IF pc = "navigate" THEN @ + 1 ELSE @,
                              !.nav_url = IF pc = "navigate" THEN url ELSE @]

\* self.driver.get(url) loads page p
NavigateOk(p) ==
    /\ pc = "navigate"
    /\ driver = "live"
    /\ page' = p
    /\ pc' = "detect"
    /\ obs' = [obs EXCEPT !.nav = @ + 1, !.nav_url = url]
    /\ UNCHANGED <<url, via, response, driver, captcha_type, solve, result,
                   api_key, calls>>
    /\ UNCHANGED <<batchVars, concVars, linkVars>>

\* self.driver.get(url) raises e
NavigateRaises(e) ==
    /\ pc = "navigate"
    /\ e \in (IF driver = "live" THEN DriverRaises ELSE QuitDriverRaises)
    /\ BrowserRaise(e)
    /\ UNCHANGED <<url, response, driver, page, captcha_type, solve, api_key, calls>>
    /\ UNCHANGED <<batchVars, concVars, linkVars>>

DetectHcaptchaFirst(m) ==
    CASE "h-captcha" \in m -> "hcaptcha"
      [] "h-captcha" \notin m /\ "g-recaptcha" \in m -> "recaptcha_v2"
      [] {"g-recaptcha", "h-captcha"} \cap m = {}
           /\ {"img-captcha", "input-captcha"} \cap m # {} -> "image_captcha"
      [] {"g-recaptcha", "h-captcha", "img-captcha", "input-captcha"} \cap m = {}
           /\ "security" \in m -> "security_challenge"
      [] OTHER -> "None"

\* the selectors of _detect_captcha_type on the markers of the page shown, first match wins
_detect_captcha_type(m) ==
    CASE "g-recaptcha" \in m -> "recaptcha_v2"
      [] "g-recaptcha" \notin m /\ "h-captcha" \in m -> "hcaptcha"
      [] {"g-recaptcha", "h-captcha"} \cap m = {}
           /\ {"img-captcha", "input-captcha"} \cap m # {} -> "image_captcha"
      [] {"g-recaptcha", "h-captcha", "img-captcha", "input-captcha"} \cap m = {}
           /\ "security" \in m -> "security_challenge"
      [] OTHER -> "None"

Solvable == {"recaptcha_v2", "hcaptcha", "image_captcha"}

\* the branch of fetch_page_with_browser that calls a _solve_* method
CallsSolve(kind) == kind \in Solvable /\ captcha_solver

DetectFaultPropagates(fault) ==
    /\ pc = "detect"
    /\ captcha_type' = IF fault THEN "None" ELSE _detect_captcha_type(page.markers)
    /\ pc' = IF fault THEN "done"
             ELSE IF CallsSolve(captcha_type') THEN "solve" ELSE "wait_body"
    /\ result' = IF fault THEN [url |-> url, content |-> Message("Error fetching")]
                 ELSE result
    /\ obs' = [obs EXCEPT !.detect = @ + 1, !.detect_fault = fault,
                          !.strategy = IF fault THEN "RENDER" ELSE @]
    /\ UNCHANGED <<url, via, response, driver, page, solve, api_key, calls>>
    /\ UNCHANGED <<batchVars, concVars, linkVars>>

\* captcha_type = self.__detect_captcha_type(); a DOM query that raises is
\* caught inside and reported as None
Detect(fault) ==
    /\ pc = "detect"
    /\ LET kind == IF fault THEN "None" ELSE _detect_captcha_type(page.markers)
       IN  /\ captcha_type' = kind
           /\ pc' = IF CallsSolve(kind) THEN "solve" ELSE "wait_body"
    /\ obs' = [obs EXCEPT !.detect = @ + 1, !.detect_fault = fault]
    /\ UNCHANGED <<url, via, response, driver, page, solve, result, api_key, calls>>
    /\ UNCHANGED <<batchVars, concVars, linkVars>>

\* the browser is up and shows page p, with no fetch under way
BrowserShows(p) ==
    /\ pc = "idle"
    /\ driver = "None"
    /\ driver' = "live"
    /\ page' = p
    /\ UNCHANGED <<pc, url, via, response, captcha_type, solve, result, api_key,
                   calls, obs>>
    /\ UNCHANGED <<batchVars, concVars, linkVars>>

ClassifyConsuming(fault) ==
    /\ pc = "idle"
    /\ driver = "live"
    /\ Len(obs.kinds) < MaxClassifications
    /\ LET kind == IF fault THEN "None" ELSE _detect_captcha_type(page.markers)
       IN  /\ captcha_type' = kind
           /\ obs' = [obs EXCEPT !.kinds = Append(@, [kind |-> kind, fault |-> fault])]
    /\ page' = [page EXCEPT !.markers = IF fault THEN @ ELSE {}]
    /\ UNCHANGED <<pc, url, via, response, driver, solve, result, api_key, calls>>
    /\ UNCHANGED <<batchVars, concVars, linkVars>>

\* one call of _detect_captcha_type on the page shown: find_elements queries
\* and a return value, nothing is written
Classify(fault) ==
    /\ pc = "idle"
    /\ driver = "live"
    /\ Len(obs.kinds) < MaxClassifications
    /\ LET kind == IF fault THEN "None" ELSE _detect_captcha_type(page.markers)
       IN  /\ captcha_type' = kind
           /\ obs' = [obs EXCEPT !.kinds = Append(@, [kind |-> kind, fault |-> fault])]
    /\ UNCHANGED <<pc, url, via, response, driver, page, solve, result, api_key,
                   calls>>
    /\ UNCHANGED <<batchVars, concVars, linkVars>>

ProviderOutcomes == {"code", "no_code", "raises"}

SolverExceptsNone == <<>>

\* the except clauses of CaptchaSolver.solve_*, in order
SolverExcepts == <<"Exception">>

\* the solver was not reached
NoCall == [called |-> FALSE, provider |-> "none", token |-> FALSE, raised |-> FALSE]

\* CaptchaSolver.solve_*: None without an API key; with one, the provider is
\* called, and the code it returns, or None when it returns none or raises
\* an exception that a clause of the method catches
CaptchaSolverSolve(key, provider) ==
    IF ~key
    THEN NoCall
    ELSE [called |-> TRUE,
          provider |-> provider,
          token |-> (provider = "code"),
          raised |-> (provider = "raises" /\ Match(SolverExcepts, "OtherError") = 0)]

SolveResult(s, returned) ==
    [attempted |-> TRUE, provider_called |-> s.called, provider |-> s.provider,
     token |-> s.token, solver_raised |-> s.raised, returned |-> returned]

SolveTokenUnchecked(key, dom_ok, provider, inject_ok) ==
    IF ~dom_ok
    THEN SolveResult(NoCall, FALSE)
    ELSE SolveResult(CaptchaSolverSolve(key, provider), inject_ok)

\* _solve_recaptcha and _solve_hcaptcha: site key, token, injection; the
\* method's own except clause turns any exception into False
solve_token_captcha(key, dom_ok, provider, inject_ok) ==
    IF ~dom_ok
    THEN SolveResult(NoCall, FALSE)
    ELSE LET s == CaptchaSolverSolve(key, provider)
         IN  IF s.raised \/ ~s.token
             THEN SolveResult(s, FALSE)
             ELSE SolveResult(s, inject_ok)

\* _solve_image_captcha: image, solution, input field, submit button
_solve_image_captcha(m, key, dom_ok, provider, inject_ok) ==
    IF "img-captcha" \notin m \/ ~dom_ok
    THEN SolveResult(NoCall, FALSE)
    ELSE LET s == CaptchaSolverSolve(key, provider)
         IN  IF s.raised \/ ~s.token
             THEN SolveResult(s, FALSE)
             ELSE IF "input-captcha" \notin m
                  THEN SolveResult(s, FALSE)
                  ELSE SolveResult(s, inject_ok)

AfterSolveRetry == "navigate"

\* where fetch_page_with_browser goes on after the _solve_* call, whatever
\* it returned: to the wait for the body
AfterSolve == "wait_body"

\* the _solve_* call chosen by captcha_type; its return value is not used.
\* A solve that returns True has submitted the form: the browser shows p.
Solve(dom_ok, provider, inject_ok, p) ==
    /\ pc = "solve"
    /\ LET s == IF captcha_type = "image_captcha"
                THEN _solve_image_captcha(page.markers, api_key, dom_ok, provider,
                                         inject_ok)
                ELSE solve_token_captcha(api_key, dom_ok, provider, inject_ok)
       IN  /\ solve' = s
           /\ page' = IF s.returned THEN p ELSE page
    /\ pc' = AfterSolve
    /\ obs' = [obs EXCEPT !.solve = @ + 1]
    /\ UNCHANGED <<url, via, response, driver, captcha_type, result, api_key, calls>>
    /\ UNCHANGED <<batchVars, concVars, linkVars>>

\* WebDriverWait(...).until(body present) returns
WaitBodyOk ==
    /\ pc = "wait_body"
    /\ pc' = "read_page"
    /\ UNCHANGED <<url, via, response, driver, page, captcha_type, solve, result,
                   api_key, calls, obs>>
    /\ UNCHANGED <<batchVars, concVars, linkVars>>

\* WebDriverWait(...).until(body present) raises e
WaitBodyRaises(e) ==
    /\ pc = "wait_body"
    /\ e \in DriverRaises
    /\ BrowserRaise(e)
    /\ UNCHANGED <<url, response, driver, page, captcha_type, solve, api_key, calls>>
    /\ UNCHANGED <<batchVars, concVars, linkVars>>

\* _scroll_page (which catches its own exceptions), then
\* page_content = self.driver.page_source and the return
ReadPageOk ==
    /\ pc = "read_page"
    /\ pc' = "done"
    /\ result' = [url |-> url, content |-> page_source(page)]
    /\ obs' = [obs EXCEPT !.strategy = "RENDER"]
    /\ UNCHANGED <<url, via, response, driver, page, captcha_type, solve,
                   api_key, calls>>
    /\ UNCHANGED <<batchVars, concVars, linkVars>>

\* self.driver.page_source raises e
ReadPageRaises(e) ==
    /\ pc = "read_page"
    /\ e \in DriverRaises
    /\ BrowserRaise(e)
    /\ UNCHANGED <<url, response, driver, page, captcha_type, solve, api_key, calls>>
    /\ UNCHANGED <<batchVars, concVars, linkVars>>

\* the except clauses of save_data, in order
SaveExcepts == <<"Exception">>

\* save_data: the text it returns; an exception raised by open() or
\* json.dump() is caught by the function's own clause and becomes text too
save_data(write_ok) ==
    IF write_ok
    THEN [raised |-> FALSE, text |-> "Data saved to"]
    ELSE IF Match(SaveExcepts, "OSError") > 0
         THEN [raised |-> FALSE, text |-> "Error saving data"]
         ELSE [raised |-> TRUE, text |-> "none"]

\* the agent calls the save_data tool on what the last fetch returned
SaveData(write_ok) ==
    /\ pc = "done"
    /\ obs.saved = "none"
    /\ LET r == save_data(write_ok)
       IN  /\ pc' = IF r.raised THEN "raised" ELSE pc
           /\ obs' = [obs EXCEPT !.saved = r.text]
    /\ UNCHANGED <<url, via, response, driver, page, captcha_type, solve, result,
                   api_key, calls>>
    /\ UNCHANGED <<batchVars, concVars, linkVars>>

\* close_browser between two calls, with a live driver: the driver is quit,
\* and browser_manager.driver keeps referring to it
close_browser ==
    /\ pc \in {"idle", "done"}
    /\ driver = "live"
    /\ driver' = "quit"
    /\ UNCHANGED <<pc, url, via, response, page, captcha_type, solve, result,
                   api_key, calls, obs>>
    /\ UNCHANGED <<batchVars, concVars, linkVars>>


(***************************************************************************)
(* scrape_medex_brands_full and the records file.                          *)
(***************************************************************************)
RECURSIVE NoDup(_)
NoDup(sq) ==
    \/ sq = <<>>
    \/ /\ \A k \in 2..Len(sq) : sq[k] # Head(sq)
       /\ NoDup(Tail(sq))

\* what extract_links_from_page may return: a list without duplicates
LinkLists == {ls \in UNION {[1..n -> URLS] : n \in 0..MaxLinks} : NoDup(ls)}

\* extract_links_from_page: the links found, or [] when anything raised
extract_links_from_page(found, raised) == IF raised THEN <<>> ELSE found

\* max_pages is None or an integer
MaxPagesArgs ==
    {[none |-> TRUE, n |-> 0]} \cup {[none |-> FALSE, n |-> k] : k \in 0..MaxPages}

NoFile == [exists |-> FALSE, entries |-> <<>>, complete |-> FALSE]

NoBobs ==
    [fetched |-> <<>>, seen |-> <<>>, pages |-> <<>>, written |-> {},
     saved_at_start |-> {}, recorded_at_start |-> {}, after_crash |-> FALSE,
     failed |-> {}]

InitBatch ==
    /\ bpc = "idle"
    /\ args = [max_pages |-> [none |-> TRUE, n |-> 0], start_page |-> 1]
    /\ total_pages = 0
    /\ page_num = 0
    /\ links = <<>>
    /\ item_i = 0
    /\ all_data = <<>>
    /\ file = NoFile
    /\ runs = 0
    /\ bobs = NoBobs

EndPageUnclamped(a, total) ==
    IF ~a.max_pages.none /\ a.max_pages.n > 0
    THEN a.start_page + a.max_pages.n - 1
    ELSE total

\* the end_page computed from max_pages, start_page and total_pages
EndPage(a, total) ==
    IF ~a.max_pages.none /\ a.max_pages.n > 0
    THEN IF a.start_page + a.max_pages.n - 1 < total
         THEN a.start_page + a.max_pages.n - 1
         ELSE total
    ELSE total

end_page == EndPage(args, total_pages)

\* the keys of a dict kept as a sequence of entries
Keys(d) == {d[k].url : k \in DOMAIN d}

\* d[key] = value on a dict: an existing key keeps its place
Put(d, key, value) ==
    IF key \in Keys(d)
    THEN [k \in DOMAIN d |-> IF d[k].url = key THEN [url |-> key, data |-> value]
                             ELSE d[k]]
    ELSE Append(d, [url |-> key, data |-> value])

\* what scrape_medicine_details returns: the fields, or the error record
MedData(outcome) ==
    IF outcome = "ok"
    THEN [name |-> "details"]
    ELSE [name |-> "Error", error |-> "exception text"]

\* the URLs a reader of the file finds an entry for; a file cut short by a
\* crash is read leniently, up to the last entry that reached the disk
FileKeys(f) == Keys(f.entries)

\* the URLs whose entry in a well-formed file is not an error record
FileSuccess(f) ==
    IF f.exists /\ f.complete
    THEN {f.entries[k].url : k \in {j \in DOMAIN f.entries :
                                       "error" \notin DOMAIN f.entries[j].data}}
    ELSE {}

InitialDataFromFile(f) == f.entries

\* all_data = {} at the start of a run, whatever the file holds
InitialData(f) == <<>>

ItemLinksUnsaved(ls) == SelectSeq(ls, LAMBDA u : u \notin FileSuccess(file))

\* `for i, link in enumerate(links)`: every link of the page is processed,
\* whatever the records file holds
ItemLinks(ls) == ls

\* a run starts: all_data = {}, get_total_pages(), end_page
StartRun(a, total) ==
    /\ bpc \in {"idle", "finished", "crashed", "aborted"}
    /\ runs < MaxRuns
    /\ runs' = runs + 1
    /\ args' = a
    /\ total_pages' = total
    /\ all_data' = InitialData(file)
    /\ page_num' = a.start_page
    /\ links' = <<>>
    /\ item_i' = 0
    /\ bpc' = "page"
    /\ bobs' = [NoBobs EXCEPT !.saved_at_start = FileSuccess(file),
                             !.recorded_at_start = FileKeys(file),
                             !.after_crash = (bpc = "crashed")]
    /\ UNCHANGED file
    /\ UNCHANGED <<fetchVars, concVars, linkVars>>

\* one turn of the page loop: extract_links_from_page returns ls
ProcessPage(ls) ==
    /\ bpc = "page"
    /\ page_num <= end_page
    /\ bobs' = [bobs EXCEPT !.pages = Append(@, page_num), !.seen = @ \o ls]
    /\ IF ItemLinks(ls) = <<>>
       THEN /\ page_num' = page_num + 1
            /\ UNCHANGED <<bpc, links, item_i>>
       ELSE /\ links' = ItemLinks(ls)
            /\ item_i' = 1
            /\ bpc' = "item"
            /\ UNCHANGED page_num
    /\ UNCHANGED <<args, total_pages, all_data, file, runs>>
    /\ UNCHANGED <<fetchVars, concVars, linkVars>>

\* the page loop is over: the run returns all_data
FinishRun ==
    /\ bpc = "page"
    /\ page_num > end_page
    /\ bpc' = "finished"
    /\ UNCHANGED <<args, total_pages, page_num, links, item_i, all_data, file, runs, bobs>>
    /\ UNCHANGED <<fetchVars, concVars, linkVars>>

ScrapeItemPropagating(outcome) ==
    /\ bpc = "item"
    /\ all_data' = IF outcome = "ok"
                   THEN Put(all_data, links[item_i], MedData(outcome))
                   ELSE all_data
    /\ bobs' = [bobs EXCEPT !.fetched = Append(@, links[item_i]),
                            !.failed = IF outcome = "ok"
                                       THEN @ \ {links[item_i]}
                                       ELSE @ \cup {links[item_i]}]
    /\ bpc' = IF outcome = "ok" THEN "open" ELSE "aborted"
    /\ UNCHANGED <<args, total_pages, page_num, links, item_i, file, runs>>
    /\ UNCHANGED <<fetchVars, concVars, linkVars>>

\* med_data = scrape_medicine_details(link); all_data[link] = med_data.
\* An exception inside scrape_medicine_details comes back as the error record.
ScrapeItem(outcome) ==
    /\ bpc = "item"
    /\ all_data' = Put(all_data, links[item_i], MedData(outcome))
    /\ bobs' = [bobs EXCEPT !.fetched = Append(@, links[item_i]),
                            !.failed = IF outcome = "ok"
                                       THEN @ \ {links[item_i]}
                                       ELSE @ \cup {links[item_i]}]
    /\ bpc' = "open"
    /\ UNCHANGED <<args, total_pages, page_num, links, item_i, file, runs>>
    /\ UNCHANGED <<fetchVars, concVars, linkVars>>

\* open("medex_brands_data.json", "w"): the file is created or truncated
OpenFile ==
    /\ bpc = "open"
    /\ file' = [exists |-> TRUE, entries |-> <<>>, complete |-> FALSE]
    /\ bpc' = "dump"
    /\ UNCHANGED <<args, total_pages, page_num, links, item_i, all_data, runs, bobs>>
    /\ UNCHANGED <<fetchVars, concVars, linkVars>>

\* open(...) raises (the file cannot be written): nothing catches it
OpenRaises ==
    /\ bpc = "open"
    /\ bpc' = "aborted"
    /\ UNCHANGED <<args, total_pages, page_num, links, item_i, all_data, file, runs, bobs>>
    /\ UNCHANGED <<fetchVars, concVars, linkVars>>

\* json.dump: the next entry of all_data reaches the file
DumpEntry ==
    /\ bpc = "dump"
    /\ Len(file.entries) < Len(all_data)
    /\ file' = [file EXCEPT !.entries = Append(@, all_data[Len(@) + 1])]
    /\ UNCHANGED <<bpc, args, total_pages, page_num, links, item_i, all_data, runs, bobs>>
    /\ UNCHANGED <<fetchVars, concVars, linkVars>>

\* json.dump raises part-way (the disk is full): the with block closes the
\* file as it is and the exception leaves the run
DumpRaises ==
    /\ bpc = "dump"
    /\ Len(file.entries) < Len(all_data)
    /\ bpc' = "aborted"
    /\ UNCHANGED <<args, total_pages, page_num, links, item_i, all_data, file, runs, bobs>>
    /\ UNCHANGED <<fetchVars, concVars, linkVars>>

\* the with block ends: the document is whole; then the next item or page
CloseFile ==
    /\ bpc = "dump"
    /\ Len(file.entries) = Len(all_data)
    /\ file' = [file EXCEPT !.complete = TRUE]
    /\ bobs' = [bobs EXCEPT !.written = @ \cup {links[item_i]}]
    /\ IF item_i < Len(links)
       THEN /\ item_i' = item_i + 1
            /\ bpc' = "item"
            /\ UNCHANGED page_num
       ELSE /\ item_i' = item_i
            /\ bpc' = "page"
            /\ page_num' = page_num + 1
    /\ UNCHANGED <<args, total_pages, links, all_data, runs>>
    /\ UNCHANGED <<fetchVars, concVars, linkVars>>

\* the process is killed: memory is gone, the file stays as it is on disk
Crash ==
    /\ bpc \in {"page", "item", "open", "dump"}
    /\ bpc' = "crashed"
    /\ UNCHANGED <<args, total_pages, page_num, links, item_i, all_data, file, runs, bobs>>
    /\ UNCHANGED <<fetchVars, concVars, linkVars>>

(***************************************************************************)
(* fetch_page_with_browser called from several threads.  browser_manager   *)
(* is one module-level object and no lock guards it: every statement of    *)
(* every thread reads self.driver afresh.  This part follows the path with *)
(* no exception; detection, solving, the wait and the scroll all use       *)
(* self.driver the same way and are one step here.                         *)
(***************************************************************************)
Workers == 1..MaxWorkers

NoWResult == [url |-> "none", inspected |-> "none", content |-> "none"]

InitConc ==
    /\ wpc = [w \in Workers |-> "idle"]
    /\ wurl = [w \in Workers |-> "none"]
    /\ wresult = [w \in Workers |-> NoWResult]
    /\ mdriver = 0
    /\ shown = <<>>

\* thread w enters fetch_page_with_browser(u)
WEnter(w, u) ==
    /\ wpc[w] = "idle"
    /\ wpc' = [wpc EXCEPT ![w] = "ensure"]
    /\ wurl' = [wurl EXCEPT ![w] = u]
    /\ UNCHANGED <<wresult, mdriver, shown>>
    /\ UNCHANGED <<fetchVars, batchVars, linkVars>>

\* `if not self.driver:` evaluated by thread w
WEnsure(w) ==
    /\ wpc[w] = "ensure"
    /\ wpc' = [wpc EXCEPT ![w] = IF mdriver = 0 THEN "init" ELSE "navigate"]
    /\ UNCHANGED <<wurl, wresult, mdriver, shown>>
    /\ UNCHANGED <<fetchVars, batchVars, linkVars>>

\* initialize_browser in thread w: a new Chrome session, assigned to self.driver
WInitialize(w) ==
    /\ wpc[w] = "init"
    /\ shown' = Append(shown, "blank")
    /\ mdriver' = Len(shown) + 1
    /\ wpc' = [wpc EXCEPT ![w] = "navigate"]
    /\ UNCHANGED <<wurl, wresult>>
    /\ UNCHANGED <<fetchVars, batchVars, linkVars>>

\* self.driver.get(url) in thread w
WNavigate(w) ==
    /\ wpc[w] = "navigate"
    /\ shown' = [shown EXCEPT ![mdriver] = wurl[w]]
    /\ wpc' = [wpc EXCEPT ![w] = "inspect"]
    /\ UNCHANGED <<wurl, wresult, mdriver>>
    /\ UNCHANGED <<fetchVars, batchVars, linkVars>>

\* detection, solving, wait and scroll in thread w, on whatever self.driver shows
WInspect(w) ==
    /\ wpc[w] = "inspect"
    /\ wresult' = [wresult EXCEPT ![w].inspected = shown[mdriver]]
    /\ wpc' = [wpc EXCEPT ![w] = "read_page"]
    /\ UNCHANGED <<wurl, mdriver, shown>>
    /\ UNCHANGED <<fetchVars, batchVars, linkVars>>

\* page_content = self.driver.page_source and the return, in thread w
WReadPage(w) ==
    /\ wpc[w] = "read_page"
    /\ wresult' = [wresult EXCEPT ![w].url = wurl[w], ![w].content = shown[mdriver]]
    /\ wpc' = [wpc EXCEPT ![w] = "done"]
    /\ UNCHANGED <<wurl, mdriver, shown>>
    /\ UNCHANGED <<fetchVars, batchVars, linkVars>>

(***************************************************************************)
(* extract_links_from_page on one listing page.  An href is the host it    *)
(* names, "" for a relative href, and its path; a listing page is its <a>  *)
(* tags in document order, each with its href (or none) and whether it     *)
(* lies in a table row and in a div whose class contains "data", and the   *)
(* hrefs the fallback regular expression matches in the raw text.          *)
(***************************************************************************)
SiteBase == "https://medex.com.bd"

\* '/brands/' in href
HasBrands(h) == h.path \in {"/brands/1", "/brands/2"}

Hrefs == {[host |-> "", path |-> "/brands/1"],
          [host |-> SiteBase, path |-> "/brands/1"],
          [host |-> "", path |-> "/brands/2"],
          [host |-> "http://other.example", path |-> "/brands/2"],
          [host |-> "", path |-> "/generics/3"]}

NoHref == [host |-> "", path |-> "none"]

Anchors == [href : Hrefs \cup {NoHref}, in_tr : BOOLEAN, in_data_div : BOOLEAN]

Docs ==
    [anchors : UNION {[1..n -> Anchors] : n \in 0..MaxAnchors},
     matches : UNION {[1..n -> {h \in Hrefs : HasBrands(h)}] : n \in 0..MaxMatches}]

NoDoc == [anchors |-> <<>>, matches |-> <<>>]

NotExtracted == [called |-> FALSE, raised |-> FALSE, links |-> <<>>]

InitLinks ==
    /\ doc = NoDoc
    /\ extracted = NotExtracted

\* full_url: the href itself when it starts with http, the site base put in
\* front of it otherwise
full_url(h) ==
    IF h.host # "" THEN h ELSE [host |-> SiteBase, path |-> h.path]

AppendAlways(ls, u) == Append(ls, u)

\* `if full_url not in links: links.append(full_url)`
AppendNew(ls, u) ==
    IF \E k \in DOMAIN ls : ls[k] = u THEN ls ELSE Append(ls, u)

\* one of the three loops over <a> tags: those of `tags` that have an href
\* with '/brands/' in it are added to ls
RECURSIVE AddTags(_, _)
AddTags(ls, tags) ==
    IF tags = <<>> THEN ls
    ELSE LET a == Head(tags)
         IN  AddTags(IF a.href # NoHref /\ HasBrands(a.href)
                     THEN AppendNew(ls, full_url(a.href))
                     ELSE ls,
                     Tail(tags))

\* the loop over the matches of the regular expression
RECURSIVE AddMatches(_, _)
AddMatches(ls, ms) ==
    IF ms = <<>> THEN ls
    ELSE AddMatches(AppendNew(ls, full_url(Head(ms))), Tail(ms))

\* the body of the try: all <a> tags, then those in table rows, then those
\* in data divs, and the regular expression only when the list is empty
FoundLinks(d) ==
    LET m1 == AddTags(<<>>, d.anchors)
        m2 == AddTags(m1, SelectSeq(d.anchors, LAMBDA a : a.in_tr))
        m3 == AddTags(m2, SelectSeq(d.anchors, LAMBDA a : a.in_data_div))
    IN  IF m3 = <<>> THEN AddMatches(m3, d.matches) ELSE m3

\* links = extract_links_from_page(page_url) on page d
ExtractLinks(d, raised) ==
    /\ ~extracted.called
    /\ doc' = d
    /\ extracted' = [called |-> TRUE, raised |-> raised,
                     links |-> extract_links_from_page(FoundLinks(d), raised)]
    /\ UNCHANGED <<fetchVars, batchVars, concVars>>

(***************************************************************************)
(* Specifications.                                                         *)
(***************************************************************************)
NextFetch ==
    \/ \E u \in URLS : Call(u)
    \/ \E r \in Responses : LightReturns(r)
    \/ \E e \in LightRaises : LightRaisesExc(e)
    \/ \E o \in InitOutcomes : InitializeBrowser(o)
    \/ ReuseBrowser
    \/ \E p \in Pages : NavigateOk(p)
    \/ \E e \in DriverRaises : NavigateRaises(e)
    \/ \E f \in BOOLEAN : Detect(f)
    \/ \E d \in BOOLEAN, o \in ProviderOutcomes, j \in BOOLEAN, p \in Pages :
           Solve(d, o, j, p)
    \/ WaitBodyOk
    \/ \E e \in DriverRaises : WaitBodyRaises(e)
    \/ ReadPageOk
    \/ \E e \in DriverRaises : ReadPageRaises(e)
    \/ \E w \in BOOLEAN : SaveData(w)
    \/ close_browser

Init == InitFetch /\ InitBatch /\ InitConc /\ InitLinks

SpecFetch == Init /\ [][NextFetch]_vars

NextDetect ==
    \/ \E p \in Pages : BrowserShows(p)
    \/ \E f \in BOOLEAN : Classify(f)

SpecDetect == Init /\ [][NextDetect]_vars

NextConc ==
    \/ \E w \in Workers, u \in URLS : WEnter(w, u)
    \/ \E w \in Workers : WEnsure(w)
    \/ \E w \in Workers : WInitialize(w)
    \/ \E w \in Workers : WNavigate(w)
    \/ \E w \in Workers : WInspect(w)
    \/ \E w \in Workers : WReadPage(w)

SpecConc == Init /\ [][NextConc]_vars

NextLinks ==
    /\ ~extracted.called
    /\ \E d \in Docs, raised \in BOOLEAN : ExtractLinks(d, raised)

SpecLinks == Init /\ [][NextLinks]_vars

NextBatch ==
    \/ \E a \in [max_pages : MaxPagesArgs, start_page : 1..(MaxPages + 1)] :
           StartRun(a, MaxPages)
    \/ \E found \in LinkLists, raised \in BOOLEAN :
           ProcessPage(extract_links_from_page(found, raised))
    \/ FinishRun
    \/ \E o \in {"ok", "exception"} : ScrapeItem(o)
    \/ OpenFile
    \/ OpenRaises
    \/ DumpEntry
    \/ DumpRaises
    \/ CloseFile
    \/ Crash

SpecBatch == Init /\ [][NextBatch]_vars

(***************************************************************************)
(* Claims about fetch_webpage (checked under SpecFetch).                   *)
(***************************************************************************)
\* the failure messages the code puts in "content"
Diagnostics ==
    {Message(m) : m \in {"Failed to initialize browser",
                         "Timeout waiting for page to load", "Browser error",
                         "Error fetching"}}

\* C1: whatever the HTTP request, the browser initialisation, the navigation,
\* the detection and the solving do (succeed or raise), no exception leaves
\* fetch_webpage, a call that has not returned can always take a step, and
\* what it returns is a record {"url", "content"} for the URL it was given.
C1_NeverRaises ==
    /\ pc # "raised"
    /\ pc \notin {"idle", "done"} => ENABLED NextFetch
    /\ pc = "done" => (DOMAIN result = {"url", "content"} /\ result.url = url)

\* C1's case: requests.get failed with a transport error, the browser was
\* entered from the except handler, an exception outside Selenium's classes
\* was raised there, and the call still returned a record.
C1_Witness ==
    /\ pc = "done"
    /\ via = "handler"
    /\ obs.light_outcome = "ConnectionError"
    /\ result = [url |-> url, content |-> Message("Error fetching")]

\* the keyword spellings of the model's vocabulary, whatever their case
KeywordWords ==
    {"captcha", "CAPTCHA", "reCaptcha", "Security Check", "bot detection",
     "Challenge"}

HasKeyword(text) == \E k \in DOMAIN text.words : text.words[k] \in KeywordWords

Marked(r) == DOMAIN r # {"url", "content"}

\* C3 (as claimed): a result whose content is real page markup has non-empty
\* content, and a result built on a failure path has no content or is marked
\* as carrying diagnostic text.
C3_Original ==
    pc = "done" =>
        /\ result.content \notin Diagnostics => Len_(result.content) > 0
        /\ result.content \in Diagnostics =>
               ("content" \notin DOMAIN result \/ Marked(result))

\* the rendered page that is returned still shows a challenge
ChallengeShown == _detect_captcha_type(page.markers) # "None"

\* the result tells its consumer that the request was blocked, and by what
ReportsBlocked(r) ==
    /\ "status" \in DOMAIN r
    /\ "challengeEncountered" \in DOMAIN r
    /\ r.content # page_source(page)

\* C4 (as claimed): when detection finds a solvable challenge and no API key
\* is configured, or a security interstitial, and no browser fault follows,
\* the result reports Blocked with the detected kind and does not carry the
\* challenge page's markup as content.
C4_Original ==
    (/\ pc = "done"
     /\ obs.detect > 0
     /\ \/ captcha_type = "security_challenge"
        \/ captcha_type \in Solvable /\ ~api_key
     /\ result.content \notin Diagnostics)
        => ReportsBlocked(result)

\* C5 (as claimed): once a _solve_* call has been made, a result that carries
\* page markup is produced only after detection has run again and found the
\* page clean.
C5_Original ==
    (pc = "done" /\ solve.attempted /\ result.content \notin Diagnostics)
        => (obs.detect >= 2 /\ ~ChallengeShown)

\* the attempt budgets a caller may have in mind; fetch_webpage takes none
AttemptBudgets == 1..3

C7_TransportFailureRenders ==
    obs.light_outcome \in {"Timeout", "ConnectionError"} =>
        /\ via = "handler"
        /\ pc \in {"ensure_browser", "navigate", "detect", "solve", "wait_body",
                   "read_page", "done"}
        /\ obs.nav > 0 => obs.nav_url = url
        /\ pc = "done" => (obs.strategy = "RENDER" /\ result.url = url)
        /\ pc = "done" =>
               \/ result.content = page_source(page)
               \/ result.content = Message("Failed to initialize browser") /\ obs.nav = 0
               \/ result.content \in Diagnostics /\ obs.nav = 1

\* C7's case: a LIGHT timeout, then the rendered page returned as content.
C7_Witness ==
    /\ obs.light_outcome = "Timeout"
    /\ pc = "done"
    /\ obs.nav_url = url
    /\ result = [url |-> url, content |-> page_source(page)]

\* C8: a response with status 200, more than 500 characters and no keyword is
\* what the call returns, unchanged, without the browser being initialised or
\* navigated for this request.
C8_CleanLightReturned ==
    (/\ response # NoResponse
     /\ response.status_code = 200
     /\ Len_(response.text) > 500
     /\ ~HasKeyword(response.text))
        => /\ pc = "done"
           /\ result = [url |-> url, content |-> response.text]
           /\ obs.strategy = "LIGHT"
           /\ obs.init = 0 /\ obs.nav = 0 /\ obs.detect = 0 /\ obs.solve = 0

\* C8's case: a clean body one character over the threshold, no browser yet.
C8_Witness ==
    /\ pc = "done"
    /\ obs.strategy = "LIGHT"
    /\ Len_(response.text) = 501
    /\ result.content = response.text
    /\ driver = "None"


\* the kinds in the order claimed, each with the markers that announce it
KindOrder ==
    <<[kind |-> "recaptcha_v2", markers |-> {"g-recaptcha"}],
      [kind |-> "hcaptcha", markers |-> {"h-captcha"}],
      [kind |-> "image_captcha", markers |-> {"img-captcha", "input-captcha"}],
      [kind |-> "security_challenge", markers |-> {"security"}]>>

\* the earliest kind of KindOrder with a marker in m, None when there is none
EarliestKind(m) ==
    LET hits == {k \in DOMAIN KindOrder : KindOrder[k].markers \cap m # {}}
    IN  IF hits = {} THEN "None"
        ELSE KindOrder[CHOOSE k \in hits : \A j \in hits : k <= j].kind

\* detection has run on the page the browser still shows, and its DOM
\* queries did not raise
Classified ==
    /\ pc \in {"solve", "wait_body"}
    /\ obs.detect = 1
    /\ ~obs.detect_fault
    /\ ~solve.attempted

C14_SolverNeverRaises ==
    (solve.attempted /\ captcha_type \in Solvable) =>
        /\ ~solve.solver_raised
        /\ ~api_key => (~solve.provider_called /\ ~solve.token)
        /\ solve.provider = "raises" => ~solve.token

\* C14's case: an image CAPTCHA, an API key, a provider call that raised,
\* and the fetch went on to return the page.
C14_Witness ==
    /\ pc = "done"
    /\ captcha_type = "image_captcha"
    /\ api_key
    /\ solve.provider_called
    /\ solve.provider = "raises"
    /\ ~solve.token
    /\ result.content = page_source(page)

\* C15 (as claimed): a _solve_* call reports failure exactly when no token
\* was obtained from the provider.
C15_Original == solve.attempted => (~solve.returned <=> ~solve.token)

\* C15 (amended): a _solve_* call that reports success has obtained a token
\* from the provider, with an API key configured; a call without a token
\* reports failure.  A call with a token may still report failure.
C15_SuccessNeedsToken ==
    solve.attempted =>
        /\ solve.returned => (solve.token /\ solve.provider_called /\ api_key)
        /\ ~solve.token => ~solve.returned

\* C15's case: a reCAPTCHA solved with a token from the provider and
\* reported as solved.
C15_Witness ==
    /\ solve.attempted
    /\ captcha_type = "recaptcha_v2"
    /\ solve.token
    /\ solve.returned

\* C17 (as claimed): once a write of the store has failed, the run has
\* stopped: no step starts the fetch of a further URL.
C17_Original == [][obs.saved = "Error saving data" => pc' # "light"]_vars

\* C18 (as claimed): once a browser fetch has ended with a browser error or
\* a timeout, the manager holds no live browser session.
C18_Original ==
    (/\ pc = "done"
     /\ obs.nav = 1
     /\ result.content \in {Message("Timeout waiting for page to load"),
                            Message("Browser error")})
        => driver # "live"

\* the steps of a thread that act on the session self.driver refers to
UsingSession == {"navigate", "inspect", "read_page"}

\* C19 (as claimed): no two threads are using the manager's session at the
\* same time, what a thread inspects and returns is the page of its own URL,
\* and at most one session has been created, so none is lost.
C19_Original ==
    /\ \A v, w \in Workers :
           (v # w /\ wpc[v] \in UsingSession) => wpc[w] \notin UsingSession
    /\ \A w \in Workers :
           wpc[w] = "done" =>
               (wresult[w].inspected = wurl[w] /\ wresult[w].content = wurl[w])
    /\ Len(shown) <= 1

\* C21 (as claimed): driver.get is only ever about to be called on a live
\* session; a session that close_browser has quit is replaced first.
C21_Original == pc = "navigate" => driver = "live"

\* C22: when a DOM query raised during detection, the detector returned None,
\* no _solve_* call is made, the fetch goes on to the wait for the body, and
\* unless a later step raises it returns the page source as content; the
\* detection fault itself never ends the fetch.
C22_DetectionFaultIsNone ==
    /\ [](obs.detect_fault =>
             /\ captcha_type = "None"
             /\ ~solve.attempted
             /\ pc \in {"wait_body", "read_page", "done"}
             /\ (pc = "done" /\ result.content \notin Diagnostics) =>
                    result = [url |-> url, content |-> page_source(page)])
    /\ [][(pc = "detect" /\ obs.detect_fault') =>
             (pc' = "wait_body" /\ result' = result /\ page' = page)]_vars

\* C22's case: detection raised on a page that shows a reCAPTCHA, and the
\* page came back as the content.
C22_Witness ==
    /\ obs.detect_fault
    /\ pc = "done"
    /\ "g-recaptcha" \in page.markers
    /\ result = [url |-> url, content |-> page_source(page)]

(***************************************************************************)
(* Claims about scrape_medex_brands_full (checked under SpecBatch).        *)
(***************************************************************************)
\* C9 (as claimed): after a crash, the file on disk still holds an entry for
\* every item of the run whose write had returned before the crash.
C9_Original == bpc = "crashed" => bobs.written \subseteq FileKeys(file)

Range(sq) == {sq[k] : k \in DOMAIN sq}

C20_Original ==
    bpc \in {"page", "item", "finished"} =>
        (bobs.written \cup bobs.recorded_at_start) \subseteq FileKeys(file)

\* the last page the claim names for the arguments of the current run
ClaimedEndPage ==
    IF args.max_pages.none \/ args.max_pages.n <= 0
    THEN total_pages
    ELSE LET last == args.start_page + args.max_pages.n - 1
         IN  IF last <= total_pages THEN last ELSE total_pages

\* C23: the pages a run has processed are start_page, start_page + 1, ... in
\* this order, none beyond the claimed end page; a finished run has processed
\* all of them up to the claimed end page, pages without links included; and
\* when start_page is beyond the end page the run processes no page, scrapes
\* no link and writes nothing.
C23_PageRange ==
    runs > 0 =>
        /\ \A k \in DOMAIN bobs.pages :
               /\ bobs.pages[k] = args.start_page + k - 1
               /\ bobs.pages[k] <= ClaimedEndPage
        /\ bpc = "finished" =>
               Len(bobs.pages) = (IF args.start_page > ClaimedEndPage THEN 0
                                  ELSE ClaimedEndPage - args.start_page + 1)
        /\ args.start_page > ClaimedEndPage =>
               (bobs.pages = <<>> /\ bobs.fetched = <<>> /\ bobs.written = {})

\* C23's case: start_page 2 and max_pages 2 on a site of 2 pages: the run
\* stopped after page 2, the only page it processed.
C23_Witness ==
    /\ bpc = "finished"
    /\ args = [max_pages |-> [none |-> FALSE, n |-> 2], start_page |-> 2]
    /\ total_pages = 2
    /\ bobs.pages = <<2>>
    /\ bobs.fetched # <<>>

(***************************************************************************)
(* Claims about extract_links_from_page (checked under SpecLinks).         *)
(***************************************************************************)
\* the absolute URLs of the brand hrefs of the <a> tags, in document order
TagUrls ==
    [k \in {j \in DOMAIN doc.anchors :
               doc.anchors[j].href.path \in {"/brands/1", "/brands/2"}} |->
        IF doc.anchors[k].href.host = ""
        THEN [host |-> SiteBase, path |-> doc.anchors[k].href.path]
        ELSE doc.anchors[k].href]

\* the absolute URLs of the matches of the regular expression, in text order
MatchUrls ==
    [k \in DOMAIN doc.matches |->
        IF doc.matches[k].host = ""
        THEN [host |-> SiteBase, path |-> doc.matches[k].path]
        ELSE doc.matches[k]]

\* the position at which u is first seen in the indexed family f
FirstSeen(f, u) ==
    CHOOSE k \in DOMAIN f : f[k] = u /\ \A j \in DOMAIN f : f[j] = u => k <= j

\* ls lists exactly the values of f, each once, in first-seen order
FirstSeenOrder(ls, f) ==
    /\ {ls[k] : k \in DOMAIN ls} = {f[k] : k \in DOMAIN f}
    /\ \A a, b \in DOMAIN ls : a < b => FirstSeen(f, ls[a]) < FirstSeen(f, ls[b])

\* C24: the list returned has no duplicates, every entry has a host and a
\* path with '/brands/', relative hrefs having the site base as host; it
\* lists the brand hrefs of the <a> tags in first-seen order, whatever rows
\* and data divs they are in, and the matches of the regular expression only
\* when no <a> tag has a brand href; when anything raised it is empty.
C24_ExtractedLinks ==
    extracted.called =>
        LET ls == extracted.links
        IN  /\ \A a, b \in DOMAIN ls : a # b => ls[a] # ls[b]
            /\ \A a \in DOMAIN ls :
                   ls[a].host # "" /\ ls[a].path \in {"/brands/1", "/brands/2"}
            /\ extracted.raised => ls = <<>>
            /\ (~extracted.raised /\ DOMAIN TagUrls # {}) => FirstSeenOrder(ls, TagUrls)
            /\ (~extracted.raised /\ DOMAIN TagUrls = {}) => FirstSeenOrder(ls, MatchUrls)

\* C24's case: a relative and an absolute href of the same brand page, both
\* in a table row, come back as one absolute URL, and the match of the
\* regular expression is not used.
C24_Witness ==
    /\ extracted.called
    /\ ~extracted.raised
    /\ Len(doc.anchors) = 2
    /\ doc.anchors[1].href = [host |-> "", path |-> "/brands/1"]
    /\ doc.anchors[2].href = [host |-> SiteBase, path |-> "/brands/1"]
    /\ doc.anchors[1].in_tr /\ doc.anchors[2].in_tr
    /\ doc.matches = <<[host |-> "", path |-> "/brands/2"]>>
    /\ extracted.links = <<[host |-> SiteBase, path |-> "/brands/1"]>>

====
